---- MODULE Spec2Model ----
(***************************************************************************)
(* Model of OpenAIHandler (mindsdb/integrations/handlers/openai_handler/   *)
(* openai_handler.py): create_validation / create, predict (checks, prompt *)
(* construction, API key) and _completion (probe, batch-size discovery,    *)
(* sequential and concurrent dispatch, assembly, _tidy).                   *)
(*                                                                         *)
(* Prompts are identified by their row index 1..N; the service completes   *)
(* prompt p with the raw text "\n\n<p>", which _tidy strips.               *)
(* The retry decorator lives in helpers.py, which is not part of the       *)
(* sources at hand: it is modelled from the written specification          *)
(* (section 4.5).                                                          *)
(***************************************************************************)
EXTENDS Integers, Sequences, FiniteSets, TLC

\* ----------------------------------------------------------------- bounds
\* Largest number of rows (= prompts) of an input table.
MaxPrompts == 3
\* Largest number of tokens of a size-limit error message.
MaxMsgLen == 3
\* Largest number of pieces a prompt template is put together from.
MaxPieces == 4
\* Largest number of rows of a table rendered through a template.
MaxRows == 2

\* The retry decorator's maximum number of attempts (its configured value
\* is set in helpers.py).
MaxAttempts == 2

\* ------------------------------------------------------ program constants
\* self.max_batch_size, the fallback batch size (openai_handler.py:23).
self_max_batch_size == 20

VARIABLES
  pc,             \* position of the calling thread
  args,           \* the USING clause given to create (stored unless rejected)
  df,             \* the input table: its row count, the configured columns it lacks
  has_key,        \* whether _get_api_key can resolve a key
  parallel,       \* _completion's parallel parameter
  prompts,        \* the prompt list handed to _completion
  probe,          \* the probe submission (a retrying call)
  e,              \* user_message of the caught InvalidRequestError
  max_batch_size, \* <<>> until discovery sets it, then <<b>>
  subs,           \* batch submissions: sequential calls or futures
  i,              \* loop index of the submit / collect loops
  completion,     \* the local `completion`: <<>> (None) or <<response>>
  returned,       \* the value predict's caller gets: <<>> or <<list>>
  error,          \* the exception that left the call (kind "" when none)
  overtaken,      \* history: a future finished before one of lower index
  tpl,            \* the template compiler's state (predict, lines 91-120)
  handler         \* the handler object's own fields (__init__, lines 19-24)

vars == <<pc, args, df, has_key, parallel, prompts, probe, e,
          max_batch_size, subs, i, completion, returned, error, overtaken, tpl,
          handler>>

\* ---------------------------------------------------------------- helpers
RECURSIVE SumSeq(_)
SumSeq(s) == IF s = <<>> THEN 0 ELSE Head(s) + SumSeq(Tail(s))

RECURSIVE Flatten(_)
Flatten(ss) == IF ss = <<>> THEN <<>> ELSE Head(ss) \o Flatten(Tail(ss))

Range1(n) == [k \in 1..n |-> k]

SeqsUpTo(S, n) == UNION {[1..k -> S] : k \in 0..n}

\* Python's s[a:b] on a list, 0-based, a and b clamped to the length.
Slice(s, a, b) ==
  LET lo == IF a > Len(s) THEN Len(s) ELSE a
      hi == IF b > Len(s) THEN Len(s) ELSE b
  IN  IF hi <= lo THEN <<>> ELSE SubSeq(s, lo + 1, hi)

\* ------------------------------------------------- the completion service
\* The raw text the service completes prompt p with.
Completion(p) == <<"\n", "\n", ToString(p)>>

\* The usage counters the service reports for a request of prompts ps.
Usage(ps) ==
  [prompt_tokens     |-> SumSeq(ps) + Len(ps),
   completion_tokens |-> 2 * Len(ps),
   total_tokens      |-> SumSeq(ps) + 3 * Len(ps)]

NoUsage == [prompt_tokens |-> 0, completion_tokens |-> 0, total_tokens |-> 0]

\* A response: a payload (err = "") or an error.
OkResponse(ps) ==
  [err |-> "", msg |-> <<>>, last |-> "",
   choices |-> [k \in 1..Len(ps) |-> Completion(ps[k])], usage |-> Usage(ps)]

\* A response that lacks the last prompt's choice (a service that breaks its
\* contract of one choice per prompt).
ShortResponse(ps) ==
  [OkResponse(ps) EXCEPT !.choices = SubSeq(@, 1, Len(@) - 1)]

ErrResponse(kind, m, lastErr) ==
  [err |-> kind, msg |-> m, last |-> lastErr, choices |-> <<>>, usage |-> NoUsage]

NoResponse == ErrResponse("", <<>>, "")

\* Error messages are sequences of tokens: "pre" is the text "you can
\* currently request up to at most", "tot" is "a total of", "close" is ").",
\* "0".."2" are digits and "w" is any other text.
Digits == {"0", "1", "2"}
Tokens == {"pre", "tot", "close", "w"} \cup Digits
Messages == SeqsUpTo(Tokens, MaxMsgLen)

\* The message of the InvalidRequestError a batch can be rejected with (a
\* size-limit rejection; no code reads the message of a batch's error).
BatchMessages == {<<"pre", "tot", "1">>}

\* What the service can answer to a request of prompts ps, the messages of
\* its InvalidRequestError drawn from msgs.
Outcomes(ps, msgs) ==
  {OkResponse(ps)} \cup {ErrResponse("RateLimitError", <<>>, "")}
    \cup {ErrResponse("InvalidRequestError", m, "") : m \in msgs}
    \cup {ErrResponse("AuthenticationError", <<>>, "")}

\* ------------------------------------------------------ retrying submitter
\* A call of the decorated _submit_completion: st is "queued" (a future not
\* yet picked up), "attempting" (a request is in flight), "sleeping" (backoff),
\* "ok" or "err"; n counts the requests sent; req is the prompt slice.
NewCall(ps) == [st |-> "queued", n |-> 0, req |-> ps, resp |-> NoResponse]

NoCall == [st |-> "none", n |-> 0, req |-> <<>>, resp |-> NoResponse]

\* Send leaving the attempt uncounted.
SendUncounted(c) == [c EXCEPT !.st = "attempting"]

\* openai.Completion.create is called: one request goes out.
Send(c) == [c EXCEPT !.st = "attempting", !.n = @ + 1]

\* MayRetry allowing one attempt too many.
MayRetryOnceMore(c) == c.n <= MaxAttempts

\* Whether another attempt follows a transient error of call c.
MayRetry(c) == c.n < MaxAttempts

\* OnResponse taking every error for a transient one.
OnResponseRetriesAll(c, r) ==
  IF r.err = "" THEN [c EXCEPT !.st = "ok", !.resp = r]
  ELSE IF MayRetry(c)
    THEN [c EXCEPT !.st = "sleeping", !.resp = r]
    ELSE [c EXCEPT !.st = "err",
                   !.resp = ErrResponse("RetriesExhausted", <<>>, r.err)]

\* The decorator's handling of the answer r to the request in flight.
OnResponse(c, r) ==
  IF r.err = "" THEN [c EXCEPT !.st = "ok", !.resp = r]
  ELSE IF r.err = "RateLimitError"
    THEN IF MayRetry(c)
           THEN [c EXCEPT !.st = "sleeping", !.resp = r]
           ELSE [c EXCEPT !.st = "err",
                          !.resp = ErrResponse("RetriesExhausted", <<>>, r.err)]
    ELSE [c EXCEPT !.st = "err", !.resp = r]

Finished(c) == c.st \in {"ok", "err"}

\* ------------------------------------------------------ batch-size discovery
\* 'you can currently request up to at most a total of' in e
HasPhrase(m) == \E k \in 1..(Len(m) - 1) : m[k] = "pre" /\ m[k + 1] = "tot"

\* e.find('a total of') + len(pattern): the tokens after the first "tot".
AfterPattern(m) ==
  LET k == CHOOSE k \in 1..Len(m) :
             m[k] = "tot" /\ \A j \in 1..(k - 1) : m[j] # "tot"
  IN  SubSeq(m, k + 1, Len(m))

\* .split(').')[0]: the text before the first ")." (all of it when none).
BeforeClose(s) ==
  IF \E k \in 1..Len(s) : s[k] = "close"
    THEN LET k == CHOOSE k \in 1..Len(s) :
                    s[k] = "close" /\ \A j \in 1..(k - 1) : s[j] # "close"
         IN  SubSeq(s, 1, k - 1)
    ELSE s

DigitValue(d) == CASE d = "0" -> 0 [] d = "1" -> 1 [] d = "2" -> 2

\* int(text): defined on non-empty digit strings, a ValueError otherwise.
IsInt(s) == s # <<>> /\ \A k \in 1..Len(s) : s[k] \in Digits

RECURSIVE IntOf(_)
IntOf(s) ==
  IF s = <<>> THEN 0 ELSE 10 * IntOf(SubSeq(s, 1, Len(s) - 1)) + DigitValue(s[Len(s)])

\* The except clause of _completion (lines 171-178): the batch size, or the
\* ValueError of int().
ParseError(m) == HasPhrase(m) /\ ~IsInt(BeforeClose(AfterPattern(m)))

DiscoveredSize(m) ==
  IF HasPhrase(m) THEN IntOf(BeforeClose(AfterPattern(m)))
  ELSE handler.max_batch_size

\* ------------------------------------------------------------ batch planner
\* math.ceil(n / b) for b > 0.
CeilDiv(n, b) == (n + b - 1) \div b

\* BatchSlice with the slice's end one too far.
BatchSliceOverlap(ps, b, k) == Slice(ps, k * b, (k + 1) * b + 1)

\* prompts[i * max_batch_size:(i + 1) * max_batch_size]
BatchSlice(ps, b, k) == Slice(ps, k * b, (k + 1) * b)

\* ---------------------------------------------------------------- assembly
\* _tidy: c['text'].strip('\n').strip('') for every choice.
RECURSIVE StripLeft(_)
StripLeft(t) == IF t # <<>> /\ Head(t) = "\n" THEN StripLeft(Tail(t)) ELSE t

RECURSIVE StripRight(_)
StripRight(t) ==
  IF t # <<>> /\ t[Len(t)] = "\n" THEN StripRight(SubSeq(t, 1, Len(t) - 1)) ELSE t

Tidy(comp) == [k \in 1..Len(comp.choices) |-> StripRight(StripLeft(comp.choices[k]))]

\* The sequential loop's merge (lines 189-194).
MergeSequential(comp, partial) ==
  IF comp = <<>> THEN <<partial>>
  ELSE <<[comp[1] EXCEPT
            !.choices = @ \o partial.choices,
            !.usage = [prompt_tokens     |-> @.prompt_tokens + partial.usage.prompt_tokens,
                       completion_tokens |-> @.completion_tokens + partial.usage.completion_tokens,
                       total_tokens      |-> @.total_tokens + partial.usage.total_tokens]]>>

\* MergeConcurrent with the later payload put in front.
MergeConcurrentInFront(comp, partial) ==
  IF comp = <<>> THEN <<partial>>
  ELSE <<[comp[1] EXCEPT !.choices = partial.choices \o @]>>

\* The concurrent collection's merge (lines 210-213): choices only.
MergeConcurrent(comp, partial) ==
  IF comp = <<>> THEN <<partial>>
  ELSE <<[comp[1] EXCEPT !.choices = @ \o partial.choices]>>

\* ------------------------------------------------------------------ state
\* The USING clause: for each key, whether it is given (a given key holds a
\* non-empty value).
ArgSpace ==
  [using : BOOLEAN, prompt_template : BOOLEAN,
   question_column : BOOLEAN, context_column : BOOLEAN]

NoArgs ==
  [using |-> FALSE, prompt_template |-> FALSE,
   question_column |-> FALSE, context_column |-> FALSE]

NoDf == [rows |-> 0, missing |-> {}]

NoTpl ==
  [pc |-> "off", base |-> <<>>, table |-> <<>>, columns |-> <<>>,
   template |-> <<>>, prompts |-> <<>>]

\* The locals of predict and _completion before the call starts.
ClearLocals ==
  /\ df' = NoDf
  /\ has_key' = FALSE
  /\ parallel' = TRUE
  /\ prompts' = <<>>
  /\ probe' = NoCall
  /\ e' = <<>>
  /\ max_batch_size' = <<>>
  /\ subs' = <<>>
  /\ i' = 0
  /\ completion' = <<>>
  /\ returned' = <<>>
  /\ overtaken' = FALSE

NoError == [kind |-> "", from |-> 0]

Init ==
  /\ pc = "new"
  /\ args = NoArgs
  /\ df = NoDf
  /\ has_key = FALSE
  /\ parallel = TRUE
  /\ prompts = <<>>
  /\ probe = NoCall
  /\ e = <<>>
  /\ max_batch_size = <<>>
  /\ subs = <<>>
  /\ i = 0
  /\ completion = <<>>
  /\ returned = <<>>
  /\ error = NoError
  /\ overtaken = FALSE
  /\ handler = [max_batch_size |-> self_max_batch_size]
  /\ tpl = NoTpl

\* The exception `kind` leaves predict, raised by submission `from` (0: the
\* probe, or no submission at all): no value is returned.
Raise(kind, from) ==
  /\ pc' = "raised"
  /\ error' = [kind |-> kind, from |-> from]
  /\ returned' = <<>>

\* Requests sent to the service so far in this call.
RECURSIVE SentBy(_)
SentBy(cs) == IF cs = <<>> THEN 0 ELSE Head(cs).n + SentBy(Tail(cs))

Sent == probe.n + SentBy(subs)

\* -------------------------------------------------------- create (26-43)
\* create_validation without its check that not both keys are given.
CreateValidationNoBothCheck(a) ==
  IF ~a.using THEN "UsingRequired"
  ELSE IF ~a.question_column /\ ~a.prompt_template THEN "EitherRequired"
  ELSE ""

\* create_validation: the exception it raises, "" when it accepts.
CreateValidation(a) ==
  IF ~a.using THEN "UsingRequired"
  ELSE IF ~a.question_column /\ ~a.prompt_template THEN "EitherRequired"
  ELSE IF a.prompt_template /\ a.question_column THEN "NotBoth"
  ELSE ""

Create ==
  /\ pc = "new"
  /\ \E a \in ArgSpace :
       IF CreateValidation(a) # ""
         THEN /\ pc' = "rejected"
              /\ error' = [kind |-> CreateValidation(a), from |-> 0]
              /\ args' = a
         ELSE /\ pc' = "created"
              /\ error' = NoError
              /\ args' = a
  /\ UNCHANGED <<df, has_key, parallel, prompts, probe, e, max_batch_size,
                 subs, i, completion, returned, overtaken, tpl, handler>>

\* ------------------------------------------------------- predict (72-133)
\* The tables predict can be called with.
Tables(a) ==
  [rows : 0..MaxPrompts,
   missing : SUBSET ({k \in {"question_column", "context_column"} : a[k]})]

\* MissingColumn without its check of the context column.
MissingColumnQuestionOnly(a, t) ==
  IF a.question_column /\ "question_column" \in t.missing
    THEN "MissingQuestionColumn"
  ELSE ""

\* Lines 81-85: the exception raised for a configured column that table t
\* lacks, "" when none is missing.
MissingColumn(a, t) ==
  IF a.question_column /\ "question_column" \in t.missing
    THEN "MissingQuestionColumn"
  ELSE IF a.context_column /\ "context_column" \in t.missing
    THEN "MissingContextColumn"
  ELSE ""

\* Lines 78-85: the configured columns must be in the table.
PredictCheck ==
  /\ pc = "created"
  /\ \E t \in Tables(args) :
       /\ df' = t
       /\ IF MissingColumn(args, t) # ""
            THEN Raise(MissingColumn(args, t), 0)
            ELSE pc' = "build" /\ UNCHANGED <<error, returned>>
  /\ UNCHANGED <<args, has_key, parallel, prompts, probe, e, max_batch_size,
                 subs, i, completion, overtaken, tpl, handler>>

\* Lines 91-128: one prompt per row, in row order.  The template branch can
\* fail on the template (TemplateCompile below models it in full).
BuildPrompts ==
  /\ pc = "build"
  /\ \/ /\ prompts' = Range1(df.rows)
        /\ pc' = "get_key"
        /\ UNCHANGED <<error, returned>>
     \/ /\ args.prompt_template
        /\ prompts' = prompts
        /\ Raise("TemplateError", 0)
  /\ UNCHANGED <<args, df, has_key, parallel, probe, e, max_batch_size,
                 subs, i, completion, overtaken, tpl, handler>>

\* Lines 130-131 and 160-169: the key is resolved, _completion is entered
\* and the probe request with the whole prompt list goes out.
GetApiKey ==
  /\ pc = "get_key"
  /\ \E k \in BOOLEAN :
       /\ has_key' = k
       /\ IF ~k
            THEN /\ Raise("MissingApiKey", 0)
                 /\ UNCHANGED <<parallel, probe>>
            ELSE /\ pc' = "probe"
                 /\ \E par \in BOOLEAN : parallel' = par
                 /\ probe' = Send(NewCall(prompts))
                 /\ UNCHANGED <<error, returned>>
  /\ UNCHANGED <<args, df, prompts, e, max_batch_size, subs, i, completion, overtaken, tpl, handler>>

\* --------------------------------------------------- _completion (135-215)
\* AfterProbe treating a successful probe like a rejected one.
AfterProbeAlwaysBatch(c) ==
  CASE c.st = "sleeping" -> "probe"
    [] c.st = "ok" -> "except"
    [] c.st = "err" /\ c.resp.err = "InvalidRequestError" -> "except"
    [] OTHER -> "raised"

\* Where the caller goes after the decorator's handling of the probe's answer
\* (lines 160-171).
AfterProbe(c) ==
  CASE c.st = "ok" -> "done"
    [] c.st = "sleeping" -> "probe"
    [] c.st = "err" /\ c.resp.err = "InvalidRequestError" -> "except"
    [] OTHER -> "raised"

\* Lines 160-170: the answer to the probe.  A success returns the tidied
\* completions at once; an InvalidRequestError enters the except clause,
\* which binds its user_message to `e`.
ProbeAnswer(r) ==
  /\ pc = "probe"
  /\ probe.st = "attempting"
  /\ LET c == OnResponse(probe, r)
         nxt == AfterProbe(c) IN
       /\ probe' = IF c.st = "err" THEN [c EXCEPT !.resp.msg = <<>>] ELSE c
       /\ CASE nxt = "done" ->
                 /\ completion' = <<r>>
                 /\ returned' = <<Tidy(r)>>
                 /\ pc' = "done"
                 /\ UNCHANGED <<e, error>>
            [] nxt = "probe" ->
                 UNCHANGED <<pc, completion, returned, e, error>>
            [] nxt = "except" ->
                 /\ pc' = "except"
                 /\ e' = c.resp.msg
                 /\ UNCHANGED <<completion, returned, error>>
            [] OTHER ->
                 /\ Raise(c.resp.err, 0)
                 /\ UNCHANGED <<completion, e>>
  /\ UNCHANGED <<args, df, has_key, parallel, prompts, max_batch_size, subs, i, overtaken, tpl, handler>>

ProbeRespond ==
  /\ pc = "probe"
  /\ probe.st = "attempting"
  /\ \E r \in Outcomes(prompts, Messages) : ProbeAnswer(r)

\* The backoff sleep of the probe ends and the next attempt goes out.
ProbeWake ==
  /\ pc = "probe"
  /\ probe.st = "sleeping"
  /\ probe' = Send(probe)
  /\ UNCHANGED <<pc, args, df, has_key, parallel, prompts, e, max_batch_size,
                 subs, i, completion, returned, error, overtaken, tpl, handler>>

\* Except keeping the size it found on the handler as well.
ExceptKeepsSize ==
  /\ pc = "except"
  /\ IF ParseError(e)
       THEN /\ Raise("ValueError", 0)
            /\ UNCHANGED <<max_batch_size, handler>>
       ELSE /\ max_batch_size' = <<DiscoveredSize(e)>>
            /\ handler' = [handler EXCEPT !.max_batch_size = DiscoveredSize(e)]
            /\ pc' = "plan"
            /\ UNCHANGED <<error, returned>>
  /\ e' = <<>>
  /\ UNCHANGED <<args, df, has_key, parallel, prompts, probe, subs, i,
                 completion, overtaken, tpl>>

\* Lines 171-178: the except clause sets the batch size (`e` is unbound when
\* the clause ends).
Except ==
  /\ pc = "except"
  /\ IF ParseError(e)
       THEN /\ Raise("ValueError", 0)
            /\ UNCHANGED max_batch_size
       ELSE /\ max_batch_size' = <<DiscoveredSize(e)>>
            /\ pc' = "plan"
            /\ UNCHANGED <<error, returned>>
  /\ e' = <<>>
  /\ UNCHANGED <<args, df, has_key, parallel, prompts, probe, subs, i,
                 completion, overtaken, tpl, handler>>

\* range(math.ceil(len(prompts) / max_batch_size)), lines 182 and 198.
NumBatches == CeilDiv(Len(prompts), max_batch_size[1])

\* The batch the loops build at index k (0-based).
Batch(k) == BatchSlice(prompts, max_batch_size[1], k)

\* Line 180: the policy is chosen and the loop bound evaluated.
Plan ==
  /\ pc = "plan"
  /\ IF max_batch_size[1] = 0
       THEN /\ Raise("ZeroDivisionError", 0)
            /\ i' = i
       ELSE /\ pc' = IF parallel THEN "submit" ELSE "seq"
            /\ i' = 0
            /\ UNCHANGED <<error, returned>>
  /\ UNCHANGED <<args, df, has_key, parallel, prompts, probe, e, max_batch_size,
                 subs, completion, overtaken, tpl, handler>>

\* Sequential policy, lines 182-188: batch i is submitted.
SeqSubmit ==
  /\ pc = "seq"
  /\ i < NumBatches
  /\ subs' = Append(subs, Send(NewCall(Batch(i))))
  /\ pc' = "seq_wait"
  /\ UNCHANGED <<args, df, has_key, parallel, prompts, probe, e, max_batch_size,
                 i, completion, returned, error, overtaken, tpl, handler>>

\* AfterBatch going on to the next batch whatever the answer was.
AfterBatchGoesOn(c) ==
  CASE c.st = "sleeping" -> "seq_wait"
    [] OTHER -> "seq"

\* Where the sequential loop goes after the decorator's handling of a batch's
\* answer (lines 183-194): on with the next index, back to wait for the
\* retry, or out of the loop with the exception.
AfterBatch(c) ==
  CASE c.st = "ok" -> "seq"
    [] c.st = "sleeping" -> "seq_wait"
    [] OTHER -> "raised"

\* Lines 183-194: the answer to the batch in flight; a payload is merged.
SeqAnswer(r) ==
  /\ pc = "seq_wait"
  /\ subs[Len(subs)].st = "attempting"
  /\ LET c == OnResponse(subs[Len(subs)], r)
         nxt == AfterBatch(c) IN
       /\ subs' = [subs EXCEPT ![Len(subs)] = c]
       /\ CASE nxt = "seq" ->
                 /\ completion' = MergeSequential(completion, r)
                 /\ i' = i + 1
                 /\ pc' = "seq"
                 /\ UNCHANGED <<returned, error>>
            [] nxt = "seq_wait" ->
                 UNCHANGED <<pc, completion, i, returned, error>>
            [] OTHER ->
                 /\ Raise(c.resp.err, Len(subs))
                 /\ UNCHANGED <<completion, i>>
  /\ UNCHANGED <<args, df, has_key, parallel, prompts, probe, e, max_batch_size, overtaken, tpl, handler>>

SeqRespond ==
  /\ pc = "seq_wait"
  /\ subs[Len(subs)].st = "attempting"
  /\ \E r \in Outcomes(subs[Len(subs)].req, BatchMessages) : SeqAnswer(r)

SeqWake ==
  /\ pc = "seq_wait"
  /\ subs[Len(subs)].st = "sleeping"
  /\ subs' = [subs EXCEPT ![Len(subs)] = Send(@)]
  /\ UNCHANGED <<pc, args, df, has_key, parallel, prompts, probe, e,
                 max_batch_size, i, completion, returned, error, overtaken, tpl, handler>>

\* The sequential loop ends.
SeqExit ==
  /\ pc = "seq"
  /\ i >= NumBatches
  /\ pc' = "tidy"
  /\ UNCHANGED <<args, df, has_key, parallel, prompts, probe, e, max_batch_size,
                 subs, i, completion, returned, error, overtaken, tpl, handler>>

\* Concurrent policy, lines 198-207: batch i is handed to the executor and
\* its future appended to promises.
Submit ==
  /\ pc = "submit"
  /\ i < NumBatches
  /\ subs' = Append(subs, NewCall(Batch(i)))
  /\ i' = i + 1
  /\ UNCHANGED <<pc, args, df, has_key, parallel, prompts, probe, e,
                 max_batch_size, completion, returned, error, overtaken, tpl, handler>>

\* A worker thread picks future k up and sends its first request.
FutureStart(k) ==
  /\ pc = "submit"
  /\ subs[k].st = "queued"
  /\ subs' = [subs EXCEPT ![k] = Send(@)]
  /\ UNCHANGED <<pc, args, df, has_key, parallel, prompts, probe, e,
                 max_batch_size, i, completion, returned, error, overtaken, tpl, handler>>

\* The answer to future k's request in flight.
FutureAnswer(k, r) ==
  /\ pc = "submit"
  /\ subs[k].st = "attempting"
  /\ subs' = [subs EXCEPT ![k] = OnResponse(@, r)]
  /\ overtaken' = (overtaken \/ (/\ Finished(subs'[k])
                                  /\ \E j \in 1..(k - 1) : ~Finished(subs[j])))
  /\ UNCHANGED <<pc, args, df, has_key, parallel, prompts, probe, e,
                 max_batch_size, i, completion, returned, error, tpl, handler>>

FutureRespond(k) ==
  /\ pc = "submit"
  /\ subs[k].st = "attempting"
  /\ \E r \in Outcomes(subs[k].req, BatchMessages) : FutureAnswer(k, r)

FutureWake(k) ==
  /\ pc = "submit"
  /\ subs[k].st = "sleeping"
  /\ subs' = [subs EXCEPT ![k] = Send(@)]
  /\ UNCHANGED <<pc, args, df, has_key, parallel, prompts, probe, e,
                 max_batch_size, i, completion, returned, error, overtaken, tpl, handler>>

\* AllFinished of an executor shut down without waiting.
AllFinishedNoWait(cs) == TRUE

\* ThreadPoolExecutor.__exit__ (line 197) returns once every future handed
\* to the executor has finished.
AllFinished(cs) == \A k \in 1..Len(cs) : Finished(cs[k])

\* Line 197: leaving the with block waits for every future to finish.
ExitWith ==
  /\ pc = "submit"
  /\ i >= NumBatches
  /\ AllFinished(subs)
  /\ pc' = "collect"
  /\ i' = 0
  /\ UNCHANGED <<args, df, has_key, parallel, prompts, probe, e, max_batch_size,
                 subs, completion, returned, error, overtaken, tpl, handler>>

\* CollectStep skipping a failed future instead of raising its exception.
CollectStepSkipFailed(comp, p) ==
  IF p.st = "err" THEN [raised |-> FALSE, comp |-> comp]
  ELSE [raised |-> FALSE, comp |-> MergeConcurrent(comp, p.resp)]

\* What collecting promise p does to `completion`: result() raises the
\* future's exception, a payload is merged (lines 209-213).
CollectStep(comp, p) ==
  IF p.st = "err" THEN [raised |-> TRUE, comp |-> comp]
  ELSE [raised |-> FALSE, comp |-> MergeConcurrent(comp, p.resp)]

\* PromiseAt going through the promises from the last to the first.
PromiseAtReversed(k) == Len(subs) - k

\* `for p in promises` (line 208): the promise that loop step k (0-based)
\* collects, in the order the futures were appended.
PromiseAt(k) == k + 1

Collect ==
  /\ pc = "collect"
  /\ i < Len(subs)
  /\ LET s == CollectStep(completion, subs[PromiseAt(i)]) IN
       IF s.raised
         THEN /\ Raise(subs[PromiseAt(i)].resp.err, PromiseAt(i))
              /\ UNCHANGED <<completion, i>>
         ELSE /\ completion' = s.comp
              /\ i' = i + 1
              /\ UNCHANGED <<pc, returned, error>>
  /\ UNCHANGED <<args, df, has_key, parallel, prompts, probe, e, max_batch_size,
                 subs, overtaken, tpl, handler>>

CollectExit ==
  /\ pc = "collect"
  /\ i >= Len(subs)
  /\ pc' = "tidy"
  /\ UNCHANGED <<args, df, has_key, parallel, prompts, probe, e, max_batch_size,
                 subs, i, completion, returned, error, overtaken, tpl, handler>>

\* Lines 215 and 132-133: _tidy(completion) is returned and wrapped in the
\* result table; _tidy(None) is a TypeError.
TidyReturn ==
  /\ pc = "tidy"
  /\ IF completion = <<>>
       THEN Raise("TypeError", 0)
       ELSE /\ returned' = <<Tidy(completion[1])>>
            /\ pc' = "done"
            /\ error' = error
  /\ UNCHANGED <<args, df, has_key, parallel, prompts, probe, e, max_batch_size,
                 subs, i, completion, overtaken, tpl, handler>>

\* The call is over: its locals are gone and the model can be used again.
PredictReturn ==
  /\ pc \in {"done", "raised"}
  /\ pc' = "created"
  /\ ClearLocals
  /\ error' = NoError
  /\ UNCHANGED <<args, tpl, handler>>

Next ==
  \/ Create
  \/ PredictCheck
  \/ BuildPrompts
  \/ GetApiKey
  \/ ProbeRespond
  \/ ProbeWake
  \/ Except
  \/ Plan
  \/ SeqSubmit
  \/ SeqRespond
  \/ SeqWake
  \/ SeqExit
  \/ Submit
  \/ \E k \in 1..Len(subs) : FutureStart(k)
  \/ \E k \in 1..Len(subs) : FutureRespond(k)
  \/ \E k \in 1..Len(subs) : FutureWake(k)
  \/ ExitWith
  \/ Collect
  \/ CollectExit
  \/ TidyReturn
  \/ PredictReturn

Spec == Init /\ [][Next]_vars

\* The interpreter, the executor's worker threads and the service all keep
\* going: a step that can be taken is eventually taken.
SpecLive == Spec /\ WF_vars(Next)

\* ------------------------------------- template compiler (predict, 91-120)
\* Templates, column names and cell values are sequences of characters.
\* re.finditer("{{(.*?)}}", s) from 1-based position `from`: the matches left
\* to right as 0-based [start, end) spans; each starts at the leftmost "{{"
\* that a "}}" follows and ends at the first such "}}".
RECURSIVE FindMatches(_, _)
FindMatches(s, from) ==
  LET closes(p) == {q \in (p + 2)..(Len(s) - 1) : s[q] = "}" /\ s[q + 1] = "}"}
      starts == {p \in from..(Len(s) - 3) :
                   s[p] = "{" /\ s[p + 1] = "{" /\ closes(p) # {}}
  IN  IF starts = {} THEN <<>>
      ELSE LET p == CHOOSE x \in starts : \A y \in starts : x <= y
               q == CHOOSE x \in closes(p) : \A y \in closes(p) : x <= y
           IN  <<[start |-> p - 1, end |-> q + 1]>> \o FindMatches(s, q + 2)

\* text.replace('{', '').replace('}', '')
RECURSIVE StripBraces(_)
StripBraces(t) ==
  IF t = <<>> THEN <<>>
  ELSE IF Head(t) \in {"{", "}"} THEN StripBraces(Tail(t))
  ELSE <<Head(t)>> \o StripBraces(Tail(t))

\* Lines 103-105: the column names of the matches.
ColumnsOf(base, ms) ==
  [k \in 1..Len(ms) |-> StripBraces(Slice(base, ms[k].start, ms[k].end))]

\* Lines 103-107: the flat list of starts and ends, without its first and
\* last element.
SpansOf(ms) ==
  LET flat == [k \in 1..(2 * Len(ms)) |->
                 IF k % 2 = 1 THEN ms[(k + 1) \div 2].start ELSE ms[k \div 2].end]
  IN  Slice(flat, 1, Len(flat) - 1)

\* Lines 108-110: the literal segments: one per pair zip(spans, spans[1:])
\* yields, between the text before the first match and the text after the last.
SegmentsOf(base, ms) ==
  LET spans == SpansOf(ms)
      inner == [k \in 1..(Len(spans) - 1) |-> Slice(base, spans[k], spans[k + 1])]
  IN  <<Slice(base, 0, ms[1].start)>> \o inner
        \o <<Slice(base, ms[Len(ms)].end, Len(base))>>

\* Lines 112-119 for one row: atom after atom, each followed by the row's
\* value of the column at the same position, while there is one.
RECURSIVE RenderRow(_, _, _, _)
RenderRow(segs, cols, row, k) ==
  IF k > Len(segs) THEN <<>>
  ELSE segs[k] \o (IF k <= Len(cols) THEN row[cols[k]] ELSE <<>>)
         \o RenderRow(segs, cols, row, k + 1)

\* The pieces templates are put together from, and the templates.
Pieces ==
  {<<"{", "{", "a", "}", "}">>, <<"{", "{", "b", "}", "}">>, <<"x">>, <<"{">>, <<"}">>}

Templates == {Flatten(ps) : ps \in SeqsUpTo(Pieces, MaxPieces)}

\* The tables rendered: 1..MaxRows rows over the columns a and b, or a alone.
ColumnSets == {{<<"a">>, <<"b">>}, {<<"a">>}}
CellValues == {<<"u">>, <<"v">>}

TemplateTables ==
  UNION {[1..n -> [cols -> CellValues]] : n \in 1..MaxRows, cols \in ColumnSets}

\* Lines 96-110: the template is compiled; matches[0] of a template without a
\* placeholder is an IndexError.
TemplateCompile ==
  /\ tpl.pc = "compile"
  /\ LET ms == FindMatches(tpl.base, 1) IN
       IF ms = <<>>
         THEN tpl' = [tpl EXCEPT !.pc = "raised"]
         ELSE tpl' = [tpl EXCEPT !.pc = "render",
                                 !.columns = ColumnsOf(tpl.base, ms),
                                 !.template = SegmentsOf(tpl.base, ms)]
  /\ UNCHANGED <<pc, args, df, has_key, parallel, prompts, probe, e,
                 max_batch_size, subs, i, completion, returned, error, overtaken, handler>>

\* Lines 112-120: every row is rendered; a column the table lacks is a
\* KeyError.
TemplateRender ==
  /\ tpl.pc = "render"
  /\ IF \E k \in 1..Len(tpl.columns) :
          k <= Len(tpl.template) /\ tpl.columns[k] \notin DOMAIN tpl.table[1]
       THEN tpl' = [tpl EXCEPT !.pc = "raised"]
       ELSE tpl' = [tpl EXCEPT
              !.pc = "rendered",
              !.prompts = [r \in 1..Len(tpl.table) |->
                             RenderRow(tpl.template, tpl.columns, tpl.table[r], 1)]]
  /\ UNCHANGED <<pc, args, df, has_key, parallel, prompts, probe, e,
                 max_batch_size, subs, i, completion, returned, error, overtaken, handler>>

\* predict's template branch on its own: any template, any table.
InitTemplate ==
  /\ pc = "new"
  /\ args = NoArgs
  /\ df = NoDf
  /\ has_key = FALSE
  /\ parallel = TRUE
  /\ prompts = <<>>
  /\ probe = NoCall
  /\ e = <<>>
  /\ max_batch_size = <<>>
  /\ subs = <<>>
  /\ i = 0
  /\ completion = <<>>
  /\ returned = <<>>
  /\ error = NoError
  /\ overtaken = FALSE
  /\ handler = [max_batch_size |-> self_max_batch_size]
  /\ \E b \in Templates, t \in TemplateTables :
       tpl = [NoTpl EXCEPT !.pc = "compile", !.base = b, !.table = t]

NextTemplate == TemplateCompile \/ TemplateRender

SpecTemplate == InitTemplate /\ [][NextTemplate]_vars

\* ------------------------------------- a service that breaks its contract
\* The service answers with a payload that lacks the last prompt's choice.
ProbeRespondShort ==
  /\ pc = "probe"
  /\ probe.st = "attempting"
  /\ prompts # <<>>
  /\ ProbeAnswer(ShortResponse(prompts))

SeqRespondShort ==
  /\ pc = "seq_wait"
  /\ subs[Len(subs)].st = "attempting"
  /\ SeqAnswer(ShortResponse(subs[Len(subs)].req))

FutureRespondShort(k) ==
  /\ pc = "submit"
  /\ subs[k].st = "attempting"
  /\ FutureAnswer(k, ShortResponse(subs[k].req))

NextShort ==
  \/ Next
  \/ ProbeRespondShort
  \/ SeqRespondShort
  \/ \E k \in 1..Len(subs) : FutureRespondShort(k)

SpecShort == Init /\ [][NextShort]_vars

\* ================================================================ claims
\* The tidied completion of prompt p.
CompletionOf(p) == StripRight(StripLeft(Completion(p)))

\* The completions of a prompt list, in its order.
CompletionsOf(ps) == [k \in 1..Len(ps) |-> CompletionOf(ps[k])]

\* The prompt slices of the submissions made so far, in order.
Requests == [k \in 1..Len(subs) |-> subs[k].req]

\* Every batch the dispatch loop plans has been built.
AllPlanned ==
  /\ max_batch_size # <<>>
  /\ \/ pc \in {"collect", "tidy"}
     \/ pc = "done"
     \/ pc \in {"seq", "submit"} /\ i >= NumBatches

\* C1: under the concurrent policy, whatever the order in which the batch
\* submissions finish, a call that dispatched batches returns, at position
\* k, the completion of the k-th input prompt.
C1_OutputInIndexOrder ==
  (pc = "done" /\ parallel /\ max_batch_size # <<>>)
    => returned = <<CompletionsOf(prompts)>>

\* A concurrent call of three batches returned although a batch had finished
\* before a batch of lower index.
C1_Witness ==
  /\ pc = "done"
  /\ parallel
  /\ overtaken
  /\ Len(subs) = 3

\* C2: for a positive batch size B, under both policies, every planned batch
\* is non-empty and at most B long, the batches built so far concatenate to a
\* prefix of the prompt list, and once all are built there are ceil(N / B) of
\* them and they concatenate to the prompt list itself.
C2_BatchesPartitionPrompts ==
  (max_batch_size # <<>> /\ max_batch_size[1] > 0) =>
    /\ \A k \in 1..Len(subs) :
         Len(subs[k].req) >= 1 /\ Len(subs[k].req) <= max_batch_size[1]
    /\ Len(Flatten(Requests)) <= Len(prompts)
    /\ Flatten(Requests) = SubSeq(prompts, 1, Len(Flatten(Requests)))
    /\ AllPlanned =>
         /\ Flatten(Requests) = prompts
         /\ Len(subs) * max_batch_size[1] >= Len(prompts)
         /\ (Len(subs) - 1) * max_batch_size[1] < Len(prompts) \/ Len(subs) = 0

\* All batches of a three-prompt list are planned with batch size 2: two
\* batches, the last one shorter.
C2_Witness ==
  /\ AllPlanned
  /\ max_batch_size = <<2>>
  /\ Len(prompts) = 3
  /\ Len(subs) = 2
  /\ Len(subs[2].req) = 1

\* C3: under the concurrent policy, once a batch submission has ended in a
\* fatal error the call never reaches its return statement and hands the
\* caller no completion: it ends with an error only.
C3_NoPartialResult ==
  (parallel /\ \E k \in 1..Len(subs) : subs[k].st = "err") =>
    /\ pc \notin {"tidy", "done"}
    /\ returned = <<>>
    /\ pc = "raised" => error.kind # ""

\* Batch 2 of 3 failed, its siblings succeeded, and the call has ended.
C3_Witness ==
  /\ pc = "raised"
  /\ parallel
  /\ Len(subs) = 3
  /\ subs[1].st = "ok"
  /\ subs[2].st = "err"
  /\ subs[3].st = "ok"

\* Whether the code's parse of message m yields a number.
YieldsLimit(m) == HasPhrase(m) /\ IsInt(BeforeClose(AfterPattern(m)))

\* C4: when the probe was rejected with an InvalidRequestError whose message
\* yields no numeric limit (the phrase is absent, or the text after it is no
\* number), the except clause raises nothing and sets the batch size to the
\* configured default.
C4_FallbackOnAnyParseFailure ==
  [][(pc = "except" /\ ~YieldsLimit(e))
       => (pc' = "plan" /\ max_batch_size' = <<self_max_batch_size>>)]_vars

\* The template with its matches ms (from the k-th on) replaced by the row's
\* values of the columns they name; `at` is the 0-based position reached.
RECURSIVE Substituted(_, _, _, _, _)
Substituted(base, ms, row, k, at) ==
  IF k > Len(ms) THEN Slice(base, at, Len(base))
  ELSE Slice(base, at, ms[k].start)
         \o row[StripBraces(Slice(base, ms[k].start, ms[k].end))]
         \o Substituted(base, ms, row, k + 1, ms[k].end)

\* C5: a template with k >= 1 placeholders compiles to k column references
\* and k + 1 literal segments, and every row renders to the template with
\* each placeholder replaced by the row's value of its column, no placeholder
\* left.
C5_TemplateRendering ==
  LET ms == FindMatches(tpl.base, 1) IN
  /\ tpl.pc \in {"render", "rendered"} =>
       /\ Len(tpl.columns) = Len(ms)
       /\ Len(tpl.template) = Len(ms) + 1
  /\ tpl.pc = "rendered" =>
       \A r \in 1..Len(tpl.table) :
         /\ tpl.prompts[r] = Substituted(tpl.base, ms, tpl.table[r], 1, 0)
         /\ FindMatches(tpl.prompts[r], 1) = <<>>

\* C5 for the templates of at most two placeholders.
C5_UpToTwoPlaceholders ==
  Len(FindMatches(tpl.base, 1)) <= 2 => C5_TemplateRendering

\* All calls made so far through the retry decorator.
Calls == {probe} \cup {subs[k] : k \in 1..Len(subs)}

\* C6: a submission is never attempted more than the configured maximum
\* number of times, it backs off only while attempts are left, and the one
\* whose attempts all reported a transient error ends, after exactly that
\* many attempts, in a fatal error that carries the last transient error.
C6_RetryBound ==
  \A c \in Calls :
    /\ c.n <= MaxAttempts
    /\ c.st = "sleeping" => (c.n < MaxAttempts /\ c.resp.err = "RateLimitError")
    /\ c.resp.err = "RetriesExhausted" =>
         (c.st = "err" /\ c.n = MaxAttempts /\ c.resp.last = "RateLimitError")

\* A batch submission has used up its attempts on transient errors.
C6_Witness ==
  \E k \in 1..Len(subs) :
    subs[k].st = "err" /\ subs[k].resp.err = "RetriesExhausted"

\* Exactly one of prompt_template and question_column is given.
ExactlyOneMode(a) == a.prompt_template # a.question_column

\* C7: a USING clause is accepted only when it gives exactly one of
\* prompt_template and question_column; one that gives both or neither is
\* rejected with an error, no prompt built and no request sent.
C7_ExactlyOneMode ==
  pc # "new" =>
    /\ pc # "rejected" => (args.using /\ ExactlyOneMode(args))
    /\ ~ExactlyOneMode(args) =>
         /\ pc = "rejected"
         /\ error.kind \in {"UsingRequired", "EitherRequired", "NotBoth"}
         /\ prompts = <<>>
         /\ Sent = 0

\* A USING clause giving both keys has been rejected.
C7_Witness ==
  /\ pc = "rejected"
  /\ args.using
  /\ args.prompt_template
  /\ args.question_column
  /\ error.kind = "NotBoth"

\* The elementwise sum of the usage counters of the payloads in cs.
RECURSIVE UsageSum(_)
UsageSum(cs) ==
  IF cs = <<>> THEN NoUsage
  ELSE LET u == Head(cs).resp.usage
           rest == UsageSum(Tail(cs))
       IN  [prompt_tokens     |-> u.prompt_tokens + rest.prompt_tokens,
            completion_tokens |-> u.completion_tokens + rest.completion_tokens,
            total_tokens      |-> u.total_tokens + rest.total_tokens]

\* C8: under both policies, the usage counters of the assembled result are
\* the elementwise sum of the usage counters of all batches.
C8_UsageSummed ==
  (pc \in {"tidy", "done"} /\ max_batch_size # <<>> /\ completion # <<>>)
    => completion[1].usage = UsageSum(subs)

\* C9: a call never returns successfully with a completion list whose length
\* differs from the number of input prompts.
C9_LengthChecked ==
  pc = "done" => Len(returned[1]) = Len(prompts)

\* C10: when the probe with the whole prompt list succeeds, the call returns
\* that response's completions and no batch is planned or submitted.
C10_ProbeSuccessShortCircuits ==
  probe.st = "ok" =>
    /\ pc = "done"
    /\ returned = <<CompletionsOf(prompts)>>
    /\ max_batch_size = <<>>
    /\ subs = <<>>
    /\ Sent = probe.n

\* The probe of a list of several prompts succeeded after a retry.
C10_Witness ==
  /\ probe.st = "ok"
  /\ probe.n = 2
  /\ pc = "done"
  /\ Len(prompts) >= 2

\* C11 as stated: the discovery probe is sent exactly once per prediction
\* call; a rate-limit failure of the probe is never followed by a second
\* probe request.
C11_ProbeSentOnce ==
  probe.st # "none" => probe.n = 1

\* C11, amended: the probe goes through the retry loop like any batch.  A
\* call that reaches discovery sends the probe at least once and at most
\* MaxAttempts times, and a further probe request follows only a rate-limit
\* failure of the previous one.
C11_ProbeRetriedLikeBatch ==
  /\ [](probe.st # "none" => probe.n \in 1..MaxAttempts)
  /\ [][(probe.n >= 1 /\ probe'.n # probe.n /\ probe'.st # "none")
          => /\ probe'.n = probe.n + 1
             /\ probe.st = "sleeping"
             /\ probe.resp.err = "RateLimitError"]_vars

\* The probe went out a second time after a rate-limit failure and was then
\* rejected for size.
C11_Witness ==
  /\ pc = "except"
  /\ probe.n = 2
  /\ probe.st = "err"
  /\ probe.resp.err = "InvalidRequestError"

\* C12: a probe rejected with any error other than a size-limit error has
\* that error propagated at once, and only a size-limit rejection leads to
\* batching.
C12_OnlySizeLimitLeadsToBatching ==
  [][/\ (/\ pc = "probe"
          /\ probe'.st = "err"
          /\ ~(probe'.resp.err = "InvalidRequestError" /\ HasPhrase(e')))
        => (pc' = "raised" /\ error'.kind = probe'.resp.err)
     /\ pc' = "plan" => HasPhrase(e)]_vars

\* C13: a size-limit rejection is never the error a call ends with, also
\* when it is a planned batch that the service rejects for size.
C13_SizeLimitNeverSurfaced ==
  pc = "raised" =>
    /\ error.kind # "InvalidRequestError"
    /\ error.from > 0 =>
         ~(/\ subs[error.from].resp.err = "InvalidRequestError"
           /\ HasPhrase(subs[error.from].resp.msg))

\* Every column the USING clause configures is in the input table.
ColumnsPresent ==
  \A c \in {"question_column", "context_column"} : args[c] => c \notin df.missing

\* C14: a call that fails for a missing configured column or for a missing
\* API key has sent no request and built no batch, and no request is sent
\* and no batch built unless the columns are present and a key was resolved.
C14_ChecksBeforeAnySubmission ==
  /\ (/\ pc = "raised"
      /\ error.kind \in {"MissingQuestionColumn", "MissingContextColumn",
                         "MissingApiKey"})
       => (Sent = 0 /\ probe = NoCall /\ subs = <<>> /\ max_batch_size = <<>>)
  /\ ~ColumnsPresent
       => (pc = "raised" /\ error.kind \in {"MissingQuestionColumn",
                                              "MissingContextColumn"})
  /\ (probe # NoCall \/ subs # <<>> \/ max_batch_size # <<>>)
       => (has_key /\ ColumnsPresent)

\* A call whose three prompts were built failed for the missing API key.
C14_Witness ==
  /\ pc = "raised"
  /\ error.kind = "MissingApiKey"
  /\ Len(prompts) = 3
  /\ Sent = 0

\* The submissions that are in flight or in their backoff sleep.
InFlight == {k \in 1..Len(subs) : subs[k].st \in {"attempting", "sleeping"}}

\* C15: under the sequential policy at most one batch submission is in
\* flight, a batch is submitted only after every earlier one succeeded, and
\* once a batch ended in a fatal error no later batch is submitted.
C15_SequentialOneAtATime ==
  /\ [](~parallel =>
         /\ Cardinality(InFlight) <= 1
         /\ \A k \in 1..(Len(subs) - 1) : subs[k].st = "ok"
         /\ (subs # <<>> /\ subs[Len(subs)].st = "err") => pc = "raised")
  /\ [][(~parallel /\ \E k \in 1..Len(subs) : subs[k].st = "err")
          => (subs' = subs \/ subs' = <<>>)]_vars

\* Of three sequential batches the second ended in a fatal error after the
\* first succeeded, and the third was not submitted.
C15_Witness ==
  /\ ~parallel
  /\ pc = "raised"
  /\ max_batch_size = <<1>>
  /\ Len(prompts) = 3
  /\ Len(subs) = 2
  /\ subs[1].st = "ok"
  /\ subs[2].st = "err"

\* C16: the batch size a call discovers is a local of that call.  It is
\* unset until discovery completes, then stays as it is until the call ends,
\* and the handler's own max_batch_size keeps its configured value, so that
\* the next call starts without a batch size.
C16_BatchSizeHeldForCall ==
  /\ [](handler.max_batch_size = self_max_batch_size)
  /\ [](pc \in {"created", "build", "get_key", "probe", "except"}
         => max_batch_size = <<>>)
  /\ [][max_batch_size # <<>>
          => \/ max_batch_size' = max_batch_size
             \/ /\ pc \in {"done", "raised"}
                /\ pc' = "created"
                /\ max_batch_size' = <<>>]_vars

\* A call that discovered the batch size 1 returned after three batches.
C16_Witness ==
  /\ pc = "done"
  /\ max_batch_size = <<1>>
  /\ Len(subs) = 3
  /\ handler.max_batch_size = self_max_batch_size

\* C17: under the concurrent policy a call that dispatched batches is past
\* the with block, with a result or an error, only when every planned batch
\* was submitted, sent and has finished: none is cancelled, in flight or in
\* its backoff sleep.
C17_ReturnsAfterAllFinished ==
  (/\ parallel
   /\ max_batch_size # <<>>
   /\ pc \in {"collect", "tidy", "done", "raised"})
    => \/ max_batch_size[1] = 0 /\ subs = <<>>
       \/ /\ max_batch_size[1] > 0
          /\ Len(subs) = NumBatches
          /\ \A k \in 1..Len(subs) : Finished(subs[k]) /\ subs[k].n >= 1

\* A concurrent call ended with the error of its first batch while the two
\* other batches ran to success, the last one through a backoff sleep.
C17_Witness ==
  /\ parallel
  /\ pc = "raised"
  /\ error.from = 1
  /\ Len(subs) = 3
  /\ subs[2].st = "ok"
  /\ subs[3].st = "ok"
  /\ subs[3].n = 2

\* The failed submissions.
Failed == {k \in 1..Len(subs) : subs[k].st = "err"}

\* C18: under the concurrent policy, when batches ended in a fatal error,
\* the call ends with the error of the failed batch of lowest index.
C18_LowestIndexErrorWins ==
  (parallel /\ pc = "raised" /\ Failed # {})
    => LET f == CHOOSE k \in Failed : \A j \in Failed : k <= j
       IN  error = [kind |-> subs[f].resp.err, from |-> f]

\* Two batches of a concurrent call failed with different errors, a batch
\* having finished before one of lower index, and the call ended with the
\* error of the lower one.
C18_Witness ==
  /\ parallel
  /\ pc = "raised"
  /\ overtaken
  /\ Failed = {2, 3}
  /\ subs[2].resp.err = "RetriesExhausted"
  /\ subs[3].resp.err = "AuthenticationError"
  /\ error.from = 2

\* A prediction call is under way.
Running == pc \in {"build", "get_key", "probe", "except", "plan", "seq",
                   "seq_wait", "submit", "collect", "tidy"}

\* C19: when every request is answered, a prediction call that is under way
\* under either policy eventually ends, with a completion list or with an
\* error.
C19_CallTerminates ==
  /\ Running ~> (pc \in {"done", "raised"})
  /\ [](pc = "done" => returned # <<>>)
  /\ [](pc = "raised" => (error.kind # "" /\ returned = <<>>))

\* A concurrent call of three batches ended after every batch had been
\* through a backoff sleep.
C19_Witness ==
  /\ parallel
  /\ pc = "done"
  /\ Len(subs) = 3
  /\ \A k \in 1..3 : subs[k].n = MaxAttempts

====
